---- MODULE Spec2Model ----
(***************************************************************************)
(* Forest-Fire-Dataset-Generator: the run_tool pipeline (climate, fire     *)
(* history, NDVI, topography, fusion) over the files of one request        *)
(* directory.                                                              *)
(*                                                                         *)
(* A table (a CSV file or a DataFrame) is a record                         *)
(*     [cols |-> sequence of column names, rows |-> sequence of rows]      *)
(* and a row is a function from column name to value.  Numeric columns     *)
(* hold integers, with NaN for a missing value; text columns hold strings, *)
(* with StrNaN for a missing value.  A timestamp is a number of ticks,     *)
(* TicksPerDay ticks to the day, tick 0 of a day being midnight; a date    *)
(* string "YYYY-MM-DD" is the number of its day.                           *)
(***************************************************************************)
EXTENDS Integers, Sequences, FiniteSets, TLC

\* ------------------------------------------------------------------ bounds
MaxDay == 6
DaysPerMonth == 3
TicksPerDay == 2
RasterSize == 4
MaxObs == 2
MaxTiles == 2
MaxHalfExtent == 3
MaxSamples == 4

\* ------------------------------------------------------- values and tables
NaN == -1
NaT == -1
StrNaN == "NaN"
NoFile == [cols |-> <<"<absent>">>, rows |-> <<>>]

StringCols == {"Fire_Cause"}

Range(s) == {s[i] : i \in 1..Len(s)}

Missing(col) == IF col \in StringCols THEN StrNaN ELSE NaN

RECURSIVE SortedSeq(_)
SortedSeq(S) ==
    IF S = {} THEN <<>>
    ELSE LET m == CHOOSE a \in S : \A b \in S : a <= b
         IN  <<m>> \o SortedSeq(S \ {m})

RECURSIVE Concat(_)
Concat(ss) == IF ss = <<>> THEN <<>> ELSE Head(ss) \o Concat(Tail(ss))

\* pd.to_datetime of a date string: midnight of that day
to_datetime(day) == IF day = NaT THEN NaT ELSE day * TicksPerDay

\* Series.dt.date: the calendar day of a timestamp
dt_date(ts) == IF ts = NaT THEN NaT ELSE ts \div TicksPerDay

\* DataFrame.rename(columns = {old: new})
rename(df, old, new) ==
    [cols |-> [i \in 1..Len(df.cols) |-> IF df.cols[i] = old THEN new ELSE df.cols[i]],
     rows |-> [i \in 1..Len(df.rows) |->
                 [c \in ((DOMAIN df.rows[i]) \ {old}) \cup
                        (IF old \in DOMAIN df.rows[i] THEN {new} ELSE {})
                    |-> IF c = new /\ old \in DOMAIN df.rows[i]
                        THEN df.rows[i][old] ELSE df.rows[i][c]]]]

\* df["Date"] = pd.to_datetime(df["Date"]) on a column of date strings
parse_dates(df) ==
    [cols |-> df.cols,
     rows |-> [i \in 1..Len(df.rows) |-> [df.rows[i] EXCEPT !["Date"] = to_datetime(@)]]]

\* df[col] = value  (a new column is appended on the right)
SetCol(df, col, value) ==
    [cols |-> IF col \in Range(df.cols) THEN df.cols ELSE Append(df.cols, col),
     rows |-> [i \in 1..Len(df.rows) |->
                 [c \in (DOMAIN df.rows[i]) \cup {col} |->
                     IF c = col THEN value ELSE df.rows[i][c]]]]

\* df[col].fillna(value, inplace=True)
fillna(df, col, value) ==
    [cols |-> df.cols,
     rows |-> [i \in 1..Len(df.rows) |->
                 [df.rows[i] EXCEPT ![col] = IF @ = Missing(col) THEN value ELSE @]]]

\* left.merge(right, on = keys, how = "left", suffixes = ("", suffix)):
\* every left row in order, once per matching right row (in the right's
\* order), or once with the right's columns missing when none matches; a
\* right column whose name the left already has takes the suffix.
MergedName(c, left, suffix) == IF c \in Range(left.cols) THEN c \o suffix ELSE c

merge_left(left, right, keys, suffix) ==
    LET rcols    == SelectSeq(right.cols, LAMBDA c : c \notin keys)
        newcols  == [i \in 1..Len(rcols) |-> MergedName(rcols[i], left, suffix)]
        Matches(l) == SelectSeq(right.rows, LAMBDA r : \A k \in keys : r[k] = l[k])
        Joined(l, r) ==
            [c \in Range(left.cols) \cup Range(newcols) |->
                IF c \in Range(left.cols) THEN l[c]
                ELSE r[rcols[CHOOSE i \in 1..Len(rcols) : newcols[i] = c]]]
        Unmatched(l) ==
            [c \in Range(left.cols) \cup Range(newcols) |->
                IF c \in Range(left.cols) THEN l[c]
                ELSE Missing(rcols[CHOOSE i \in 1..Len(rcols) : newcols[i] = c])]
        RowsFor(l) ==
            LET m == Matches(l)
            IN  IF m = <<>> THEN <<Unmatched(l)>>
                ELSE [j \in 1..Len(m) |-> Joined(l, m[j])]
    IN  [cols |-> left.cols \o newcols,
         rows |-> Concat([i \in 1..Len(left.rows) |-> RowsFor(left.rows[i])])]

\* a variant that keeps the columns in the order of the merged table
Reorder_input_order(df, order) ==
    LET kept == SelectSeq(df.cols, LAMBDA c : c \in Range(order))
    IN  [cols |-> kept,
         rows |-> [i \in 1..Len(df.rows) |-> [c \in Range(kept) |-> df.rows[i][c]]]]

\* df[[col for col in order if col in df.columns]]
Reorder(df, order) ==
    LET kept == SelectSeq(order, LAMBDA c : c \in Range(df.cols))
    IN  [cols |-> kept,
         rows |-> [i \in 1..Len(df.rows) |-> [c \in Range(kept) |-> df.rows[i][c]]]]

column_order ==
    << "grid_id", "Latitude", "Longitude", "Date",
       "Wind_Speed_U_10m", "Wind_Speed_V_10m", "Dew_Point_2m_C", "Temperature_2m_C",
       "Surface_Pressure_Pa", "Total_Precip_mm",
       "Total_Fire_Size", "Fire_Occurred", "Fire_Cause",
       "ndvi",
       "Elevation", "Slope", "Aspect" >>

\* pd.to_datetime of a full timestamp string <<day, tick of the day>>
to_datetime_ts(s) == s[1] * TicksPerDay + s[2]

\* to_csv of a timestamp: the string <<day, tick of the day>>
format_ts(ts) == <<ts \div TicksPerDay, ts % TicksPerDay>>

\* df["Date"] = pd.to_datetime(df["Date"]) on a column of timestamp strings
parse_timestamps(df) ==
    [cols |-> df.cols,
     rows |-> [i \in 1..Len(df.rows) |-> [df.rows[i] EXCEPT !["Date"] = to_datetime_ts(@)]]]

\* ----------------------------------------------------------------- fusion
\* merge_final_dataset(request_id, start_date, end_date): the four stage
\* files of the request directory in, the outcome and the file written out.
\*   outcome "no_climate" / "no_date": the early returns (nothing written)
\*   outcome "raised": a KeyError on a column the code indexes (nothing written)
\*   outcome "written": final_merged_dataset.csv written with the table
FireFilled == {"Total_Fire_Size", "Fire_Occurred", "Fire_Cause"}

TopoFilled == {"Elevation", "Slope", "Aspect"}

\* "Merge Fire History Data (on grid_id & Date)"
merge_fire(merged_df, fire_file) ==
    IF fire_file # NoFile
    THEN LET fire_df0 == IF "Date" \notin Range(fire_file.cols)
                         THEN rename(fire_file, "date", "Date") ELSE fire_file
         IN  IF ~ ({"grid_id", "Date"} \subseteq Range(fire_df0.cols))
             THEN [raised |-> TRUE, df |-> merged_df]
             ELSE LET fire_df == parse_timestamps(fire_df0)
                      m == merge_left(merged_df, fire_df, {"grid_id", "Date"}, "_fire")
                  IN  IF ~ (FireFilled \subseteq Range(m.cols))
                      THEN [raised |-> TRUE, df |-> m]
                      ELSE [raised |-> FALSE,
                            df |-> fillna(fillna(fillna(m, "Total_Fire_Size", 0),
                                                 "Fire_Occurred", 0),
                                          "Fire_Cause", "None")]
    ELSE [raised |-> FALSE,
          df |-> SetCol(SetCol(SetCol(merged_df, "Total_Fire_Size", 0),
                               "Fire_Occurred", 0),
                        "Fire_Cause", "None")]

\* a variant that fills a missing NDVI with zero
merge_ndvi_zero_fill(merged_df, ndvi_file) ==
    IF ndvi_file # NoFile
    THEN LET ndvi_df0 == IF "Date" \notin Range(ndvi_file.cols)
                            /\ "date" \in Range(ndvi_file.cols)
                         THEN rename(ndvi_file, "date", "Date") ELSE ndvi_file
         IN  IF ~ ({"grid_id", "Date", "ndvi"} \subseteq Range(ndvi_df0.cols))
             THEN [raised |-> TRUE, df |-> merged_df]
             ELSE LET ndvi_df == parse_dates(ndvi_df0)
                      m == merge_left(merged_df, ndvi_df, {"grid_id", "Date"}, "_ndvi")
                  IN  IF "ndvi" \notin Range(m.cols)
                      THEN [raised |-> TRUE, df |-> m]
                      ELSE [raised |-> FALSE, df |-> fillna(m, "ndvi", 0)]
    ELSE [raised |-> FALSE, df |-> SetCol(merged_df, "ndvi", 0)]

\* a variant that adds no ndvi column when the NDVI file is absent
merge_ndvi_no_placeholder(merged_df, ndvi_file) ==
    IF ndvi_file # NoFile
    THEN LET ndvi_df0 == IF "Date" \notin Range(ndvi_file.cols)
                            /\ "date" \in Range(ndvi_file.cols)
                         THEN rename(ndvi_file, "date", "Date") ELSE ndvi_file
         IN  IF ~ ({"grid_id", "Date", "ndvi"} \subseteq Range(ndvi_df0.cols))
             THEN [raised |-> TRUE, df |-> merged_df]
             ELSE LET ndvi_df == parse_dates(ndvi_df0)
                      m == merge_left(merged_df, ndvi_df, {"grid_id", "Date"}, "_ndvi")
                  IN  IF "ndvi" \notin Range(m.cols)
                      THEN [raised |-> TRUE, df |-> m]
                      ELSE [raised |-> FALSE, df |-> fillna(m, "ndvi", NaN)]
    ELSE [raised |-> FALSE, df |-> merged_df]

\* "Merge NDVI Data (on grid_id & Date)"
merge_ndvi(merged_df, ndvi_file) ==
    IF ndvi_file # NoFile
    THEN LET ndvi_df0 == IF "Date" \notin Range(ndvi_file.cols)
                            /\ "date" \in Range(ndvi_file.cols)
                         THEN rename(ndvi_file, "date", "Date") ELSE ndvi_file
         IN  IF ~ ({"grid_id", "Date", "ndvi"} \subseteq Range(ndvi_df0.cols))
             THEN [raised |-> TRUE, df |-> merged_df]
             ELSE LET ndvi_df == parse_dates(ndvi_df0)
                      m == merge_left(merged_df, ndvi_df, {"grid_id", "Date"}, "_ndvi")
                  IN  IF "ndvi" \notin Range(m.cols)
                      THEN [raised |-> TRUE, df |-> m]
                      ELSE [raised |-> FALSE, df |-> fillna(m, "ndvi", NaN)]
    ELSE [raised |-> FALSE, df |-> SetCol(merged_df, "ndvi", NaN)]

\* a variant that fills a missing elevation, slope or aspect with zero
merge_topo_zero_fill(merged_df, topo_file) ==
    IF topo_file # NoFile
    THEN IF "grid_id" \notin Range(topo_file.cols)
         THEN [raised |-> TRUE, df |-> merged_df]
         ELSE LET m == merge_left(merged_df, topo_file, {"grid_id"}, "_topo")
              IN  IF ~ (TopoFilled \subseteq Range(m.cols))
                  THEN [raised |-> TRUE, df |-> m]
                  ELSE [raised |-> FALSE,
                        df |-> fillna(fillna(fillna(m, "Elevation", 0),
                                             "Slope", 0), "Aspect", 0)]
    ELSE [raised |-> FALSE,
          df |-> SetCol(SetCol(SetCol(merged_df, "Elevation", NaN), "Slope", NaN),
                        "Aspect", NaN)]

\* "Merge Topo Data (Only on grid_id, NOT Date)"
merge_topo(merged_df, topo_file) ==
    IF topo_file # NoFile
    THEN IF "grid_id" \notin Range(topo_file.cols)
         THEN [raised |-> TRUE, df |-> merged_df]
         ELSE LET m == merge_left(merged_df, topo_file, {"grid_id"}, "_topo")
              IN  IF ~ (TopoFilled \subseteq Range(m.cols))
                  THEN [raised |-> TRUE, df |-> m]
                  ELSE [raised |-> FALSE,
                        df |-> fillna(fillna(fillna(m, "Elevation", NaN),
                                             "Slope", NaN), "Aspect", NaN)]
    ELSE [raised |-> FALSE,
          df |-> SetCol(SetCol(SetCol(merged_df, "Elevation", NaN), "Slope", NaN),
                        "Aspect", NaN)]

\* a variant whose upper bound is exclusive
filter_dates_exclusive(merged_df, start_date, end_date) ==
    [cols |-> merged_df.cols,
     rows |-> SelectSeq(merged_df.rows,
                        LAMBDA r : /\ r["Date"] >= to_datetime(start_date)
                                   /\ r["Date"] < to_datetime(end_date))]

\* merged_df[(Date >= start_date) & (Date <= end_date)]
filter_dates(merged_df, start_date, end_date) ==
    [cols |-> merged_df.cols,
     rows |-> SelectSeq(merged_df.rows,
                        LAMBDA r : /\ r["Date"] >= to_datetime(start_date)
                                   /\ r["Date"] <= to_datetime(end_date))]

\* to_csv: a Date column of midnight timestamps is written as date strings
to_csv(df) ==
    IF "Date" \in Range(df.cols)
    THEN [cols |-> df.cols,
          rows |-> [i \in 1..Len(df.rows) |-> [df.rows[i] EXCEPT !["Date"] = dt_date(@)]]]
    ELSE df

\* merge_final_dataset from "Start with Climate Data as the base" on
merge_loaded(climate_df, fire_file, ndvi_file, topo_file, start_date, end_date) ==
    LET base == IF "GridID" \in Range(climate_df.cols)
                THEN rename(climate_df, "GridID", "grid_id") ELSE climate_df
    IN  IF "Date" \notin Range(base.cols)
        THEN [outcome |-> "no_date", file |-> NoFile]
        ELSE
        LET dated == parse_dates(base)
            f == merge_fire(dated, fire_file)
        IN  IF f.raised THEN [outcome |-> "raised", file |-> NoFile]
            ELSE
            LET n == merge_ndvi(f.df, ndvi_file)
            IN  IF n.raised THEN [outcome |-> "raised", file |-> NoFile]
                ELSE
                LET t == merge_topo(n.df, topo_file)
                IN  IF t.raised THEN [outcome |-> "raised", file |-> NoFile]
                    ELSE [outcome |-> "written",
                          file |-> to_csv(Reorder(filter_dates(t.df, start_date, end_date),
                                                  column_order))]

\* a variant that goes on with an empty table when the climate file is absent
merge_final_dataset_unchecked(climate_file, fire_file, ndvi_file, topo_file, start_date, end_date) ==
    merge_loaded(IF climate_file = NoFile THEN [cols |-> <<"grid_id", "Date">>, rows |-> <<>>]
                 ELSE climate_file,
                 fire_file, ndvi_file, topo_file, start_date, end_date)

\* merge_final_dataset: the stage files that exist are loaded; without the
\* climate file the function prints an error and returns
merge_final_dataset(climate_file, fire_file, ndvi_file, topo_file, start_date, end_date) ==
    IF climate_file = NoFile
    THEN [outcome |-> "no_climate", file |-> NoFile]
    ELSE merge_loaded(climate_file, fire_file, ndvi_file, topo_file, start_date, end_date)

\* ------------------------------------------------------------------- grid
\* Data/Grid/<province>/<province>_Grid.shp: provinces "A" and "B" have two
\* adjacent square cells each, province "N" has no grid file.  A point is
\* <<x, y>> (longitude, latitude).
Provinces == {"A", "B", "N"}

GridCell(id, minx, maxx) ==
    [grid_id |-> id, minx |-> minx, miny |-> 0, maxx |-> maxx, maxy |-> 4]

shapefile_exists(province) == province \in {"A", "B"}

read_grid(province) ==
    CASE province = "A" -> <<GridCell(1, 0, 4), GridCell(2, 4, 8)>>
      [] province = "B" -> <<GridCell(3, 10, 14), GridCell(4, 14, 18)>>
      [] OTHER -> <<>>

SetMin(S) == CHOOSE a \in S : \A b \in S : a <= b

SetMax(S) == CHOOSE a \in S : \A b \in S : a >= b

\* GeoDataFrame.total_bounds: [minx, miny, maxx, maxy]
total_bounds(grid) ==
    [minx |-> SetMin({grid[i].minx : i \in 1..Len(grid)}),
     miny |-> SetMin({grid[i].miny : i \in 1..Len(grid)}),
     maxx |-> SetMax({grid[i].maxx : i \in 1..Len(grid)}),
     maxy |-> SetMax({grid[i].maxy : i \in 1..Len(grid)})]

\* predicate = "within": the point lies in the interior of the cell
within(p, cell) ==
    /\ cell.minx < p[1] /\ p[1] < cell.maxx
    /\ cell.miny < p[2] /\ p[2] < cell.maxy

\* Reference frames.  A point of EPSG:4326 is <<longitude, latitude>>; the
\* projected frame EPSG:3857 scales the longitude and stretches the latitude
\* more the further north it lies (here: by its square, latitudes being
\* whole and not negative).
ProjScale == 10

MaxLat == 2 * MaxHalfExtent + 4

stretch(lat) == lat * lat

\* the latitude whose stretched value is nearest to v
unstretch(v) == SetMax({0} \cup {y \in 1..MaxLat : (2 * y - 1) * (2 * y - 1) <= 4 * v})

\* GeoSeries.to_crs on the cells of a grid: every corner is transformed
to_3857(cell) ==
    [cell EXCEPT !.minx = @ * ProjScale, !.maxx = @ * ProjScale,
                 !.miny = stretch(@), !.maxy = stretch(@)]

to_4326(cell) ==
    [cell EXCEPT !.minx = @ \div ProjScale, !.maxx = @ \div ProjScale,
                 !.miny = unstretch(@), !.maxy = unstretch(@)]

\* geometry.centroid: the centre of the cell in the frame its corners are in
geometry_centroid(cell) == <<(cell.minx + cell.maxx) \div 2, (cell.miny + cell.maxy) \div 2>>

\* centroid in EPSG:3857, reprojected to EPSG:4326
centroid(cell) ==
    LET c == geometry_centroid(to_3857(cell))
    IN  <<c[1] \div ProjScale, unstretch(c[2])>>

\* the centroid column the climate, fire-history and topography stages add
\* to the grid, one entry per cell
projected_centroids(grid_gdf) ==
    [i \in 1..Len(grid_gdf) |->
        [grid_id |-> grid_gdf[i].grid_id, centroid |-> centroid(grid_gdf[i])]]

\* the centroids map_ndvi_to_grid takes in its loop over the cells
geometry_centroids(grid_gdf) ==
    [i \in 1..Len(grid_gdf) |->
        [grid_id |-> grid_gdf[i].grid_id, centroid |-> geometry_centroid(grid_gdf[i])]]

Stages == {"climate", "fire", "ndvi", "topo"}

stage_centroids(stage, grid_gdf) ==
    IF stage = "ndvi" THEN geometry_centroids(grid_gdf) ELSE projected_centroids(grid_gdf)

\* gpd.read_file(shapefile_path): the frame a grid file declares ("none" when
\* it declares no frame) and its cells in that frame
GridFile(crs, grid) ==
    [crs |-> crs,
     cells |-> IF crs = "EPSG:3857" THEN [i \in 1..Len(grid) |-> to_3857(grid[i])] ELSE grid]

read_file(province) == GridFile("EPSG:4326", read_grid(province))

\* GeoDataFrame.to_crs("EPSG:4326"): raises on a file without a frame
to_crs(gdf) ==
    CASE gdf.crs = "none"      -> [raised |-> TRUE, gdf |-> gdf]
      [] gdf.crs = "EPSG:4326" -> [raised |-> FALSE, gdf |-> gdf]
      [] OTHER -> [raised |-> FALSE,
                   gdf |-> [crs |-> "EPSG:4326",
                            cells |-> [i \in 1..Len(gdf.cells) |-> to_4326(gdf.cells[i])]]]

\* gpd.sjoin(points, grid, predicate = "within"): one joined row per
\* (point row, containing cell); how = "left" keeps a point no cell contains
\* with a missing grid_id, how = "inner" drops it.
sjoin(points, grid, how) ==
    LET CellsOf(r) == SelectSeq(grid, LAMBDA c : within(<<r.longitude, r.latitude>>, c))
        RowsFor(r) ==
            LET cs == CellsOf(r)
            IN  IF cs = <<>>
                THEN IF how = "left" THEN <<[row |-> r, grid_id |-> NaN]>> ELSE <<>>
                ELSE [j \in 1..Len(cs) |-> [row |-> r, grid_id |-> cs[j].grid_id]]
    IN  Concat([i \in 1..Len(points) |-> RowsFor(points[i])])

\* the centroid coordinates of the cell with this grid_id (missing when none)
centroid_of(grid, id, axis) ==
    LET cs == SelectSeq(grid, LAMBDA c : c.grid_id = id)
    IN  IF cs = <<>> THEN NaN ELSE centroid(cs[1])[axis]

\* --------------------------------------------------------------- calendar
Days == 1..MaxDay

month_of(day) == (day - 1) \div DaysPerMonth

\* ---------------------------------------------------------- climate stage
\* The reanalysis served by the CDS API: one observation per grid point of
\* the requested area, per available day of the requested month, at 12:00.
Era5Points == {<<1, 2>>, <<3, 2>>, <<4, 2>>, <<6, 2>>, <<9, 2>>,
               <<11, 2>>, <<13, 2>>, <<14, 2>>, <<16, 2>>}

ClimateVars ==
    << "Wind_Speed_U_10m", "Wind_Speed_V_10m", "Dew_Point_2m_C", "Temperature_2m_C",
       "Surface_Pressure_Pa", "Total_Precip_mm" >>

Era5Value(var, p, day) ==
    LET base == 2 * (p[1] + day)
    IN  CASE var = "Wind_Speed_U_10m"    -> base
          [] var = "Wind_Speed_V_10m"    -> base + 2
          [] var = "Dew_Point_2m_C"      -> base + 10
          [] var = "Temperature_2m_C"    -> base + 20
          [] var = "Surface_Pressure_Pa" -> IF p[1] % 10 = 6 /\ day % 2 = 0 THEN NaN ELSE base + 100
          [] var = "Total_Precip_mm"     -> IF p[1] % 10 = 3 THEN NaN ELSE base

\* a variant that serves the days of every month
cds_retrieve_every_month(bbox_cds, month, available) ==
    LET north == bbox_cds[1]
        west  == bbox_cds[2]
        south == bbox_cds[3]
        east  == bbox_cds[4]
        pts   == {p \in Era5Points : west <= p[1] /\ p[1] <= east
                                     /\ south <= p[2] /\ p[2] <= north}
        days  == available
        xs    == SortedSeq({p[1] : p \in pts})
    IN  Concat([i \in 1..Len(SortedSeq(days)) |->
                 [j \in 1..Len(xs) |->
                    LET d == SortedSeq(days)[i]
                        p == CHOOSE q \in pts : q[1] = xs[j]
                    IN  [latitude |-> p[2], longitude |-> p[1],
                         valid_time |-> d * TicksPerDay + 1,
                         vals |-> [v \in Range(ClimateVars) |-> Era5Value(v, p, d)]]]])

\* 'area': [North, West, South, East], 'year'/'month' of start_date, all days
cds_retrieve(bbox_cds, month, available) ==
    LET north == bbox_cds[1]
        west  == bbox_cds[2]
        south == bbox_cds[3]
        east  == bbox_cds[4]
        pts   == {p \in Era5Points : west <= p[1] /\ p[1] <= east
                                     /\ south <= p[2] /\ p[2] <= north}
        days  == {d \in available : month_of(d) = month}
        xs    == SortedSeq({p[1] : p \in pts})
    IN  Concat([i \in 1..Len(SortedSeq(days)) |->
                 [j \in 1..Len(xs) |->
                    LET d == SortedSeq(days)[i]
                        p == CHOOSE q \in pts : q[1] = xs[j]
                    IN  [latitude |-> p[2], longitude |-> p[1],
                         valid_time |-> d * TicksPerDay + 1,
                         vals |-> [v \in Range(ClimateVars) |-> Era5Value(v, p, d)]]]])

NoArea == <<>>

\* process_climate_data.get_bounding_box_cds: [North, West, South, East] of
\* the grid in EPSG:4326
get_bounding_box_cds(gdf) ==
    LET geo == IF gdf.crs = "none" \/ gdf.crs # "EPSG:4326" THEN to_crs(gdf)
               ELSE [raised |-> FALSE, gdf |-> gdf]
        bounds == total_bounds(geo.gdf.cells)
    IN  IF geo.raised THEN [raised |-> TRUE, area |-> NoArea]
        ELSE [raised |-> FALSE,
              area |-> <<bounds.maxy, bounds.minx, bounds.miny, bounds.maxx>>]

\* climate.get_bounding_box: the frame is read without a test for its absence
get_bounding_box(gdf) ==
    LET geo == IF gdf.crs # "EPSG:4326" THEN to_crs(gdf) ELSE [raised |-> FALSE, gdf |-> gdf]
        bounds == total_bounds(geo.gdf.cells)
    IN  IF gdf.crs = "none" \/ geo.raised THEN [raised |-> TRUE, area |-> NoArea]
        ELSE [raised |-> FALSE,
              area |-> <<bounds.maxy, bounds.minx, bounds.miny, bounds.maxx>>]

\* ui.main_window.run_tool hands list(gdf.total_bounds) of the grid
\* file as read to modules.climate_data_fetcher.fetch_climate_data, which
\* orders it into the 'area' of its request
fetch_climate_data_area(gdf) ==
    LET bounding_box == total_bounds(gdf.cells)
    IN  [raised |-> FALSE,
         area |-> <<bounding_box.maxy, bounding_box.minx, bounding_box.miny, bounding_box.maxx>>]

RECURSIVE SeqSum(_)
SeqSum(s) == IF s = <<>> THEN 0 ELSE Head(s) + SeqSum(Tail(s))

\* a variant that counts a missing value as zero
agg_mean_missing_as_zero(vals) ==
    IF vals = <<>> THEN NaN
    ELSE SeqSum([k \in 1..Len(vals) |-> IF vals[k] = NaN THEN 0 ELSE vals[k]]) \div Len(vals)

\* groupby(...).agg('mean'): missing values are skipped, all missing gives missing
agg_mean(vals) ==
    LET valid == SelectSeq(vals, LAMBDA v : v # NaN)
    IN  IF valid = <<>> THEN NaN ELSE SeqSum(valid) \div Len(valid)

ClimateCols == <<"GridID", "Date">> \o ClimateVars \o <<"Latitude", "Longitude">>

map_and_aggregate_points_to_grid(raw, grid) ==
    LET df     == [i \in 1..Len(raw) |-> [raw[i] EXCEPT !.valid_time = dt_date(@)]]
        mapped == sjoin(df, grid, "inner")
        ids    == SortedSeq({mapped[i].grid_id : i \in 1..Len(mapped)})
        DatesOf(id) == SortedSeq({mapped[i].row.valid_time :
                                    i \in {k \in 1..Len(mapped) : mapped[k].grid_id = id}})
        Group(id, d) == SelectSeq(mapped, LAMBDA m : m.grid_id = id /\ m.row.valid_time = d)
        Agg(id, d) ==
            [c \in Range(ClimateCols) |->
                CASE c = "GridID"    -> id
                  [] c = "Date"      -> d
                  [] c = "Latitude"  -> centroid_of(grid, id, 2)
                  [] c = "Longitude" -> centroid_of(grid, id, 1)
                  [] OTHER -> agg_mean([k \in 1..Len(Group(id, d)) |->
                                           Group(id, d)[k].row.vals[c]])]
    IN  [cols |-> ClimateCols,
         rows |-> Concat([i \in 1..Len(ids) |->
                            [j \in 1..Len(DatesOf(ids[i])) |->
                                Agg(ids[i], DatesOf(ids[i])[j])]])]

\* process_climate_data: raises when the grid file is missing or the
\* retrieval fails, else writes aggregated_climate_data.csv
process_climate_data(province, start_date, available) ==
    IF ~ shapefile_exists(province) THEN [raised |-> TRUE, file |-> NoFile]
    ELSE LET raw == cds_retrieve(get_bounding_box_cds(read_file(province)).area,
                                month_of(start_date), available)
         IN  IF raw = <<>> THEN [raised |-> TRUE, file |-> NoFile]
             ELSE [raised |-> FALSE,
                   file |-> map_and_aggregate_points_to_grid(raw, read_grid(province))]

\* ----------------------------------------------------- fire-history stage
\* Data/FireHistory/fire_history.txt
FireRecord(x, y, ts, cause, size) ==
    [longitude |-> x, latitude |-> y, REP_DATE |-> ts, CAUSE |-> cause, SIZE_HA |-> size]

fire_history ==
    << FireRecord(1, 1, 2 * TicksPerDay, "H", 5),
       FireRecord(3, 3, 2 * TicksPerDay, "L", 7),
       FireRecord(4, 1, 4 * TicksPerDay, "H", 2),
       FireRecord(30, 1, 3 * TicksPerDay, "L", 9),
       FireRecord(6, 1, 5 * TicksPerDay + 1, "U", 4),
       FireRecord(2, 2, NaT, "H", 1) >>

FireCols == <<"grid_id", "Latitude", "Longitude", "Date", "Fire_Cause", "Fire_Size_HA">>

\* outcome "raised" (missing grid file), "returned" (nothing in range or in
\* the grid's bounding box: no file written) or "written"
process_fire_history(province, start_date, end_date) ==
    IF ~ shapefile_exists(province) THEN [outcome |-> "raised", file |-> NoFile]
    ELSE
    LET fire_data_filtered ==
            SelectSeq(fire_history,
                      LAMBDA r : /\ r.REP_DATE # NaT
                                 /\ r.REP_DATE >= to_datetime(start_date)
                                 /\ r.REP_DATE <= to_datetime(end_date))
        grid_gdf == read_grid(province)
        b == total_bounds(grid_gdf)
        fire_gdf == SelectSeq(fire_data_filtered,
                              LAMBDA r : /\ b.minx <= r.longitude /\ r.longitude <= b.maxx
                                         /\ b.miny <= r.latitude /\ r.latitude <= b.maxy)
        joined_gdf == sjoin(fire_gdf, grid_gdf, "left")
        Final(j) ==
            [c \in Range(FireCols) |->
                CASE c = "grid_id"      -> j.grid_id
                  [] c = "Latitude"     -> centroid_of(grid_gdf, j.grid_id, 2)
                  [] c = "Longitude"    -> centroid_of(grid_gdf, j.grid_id, 1)
                  [] c = "Date"         -> format_ts(j.row.REP_DATE)
                  [] c = "Fire_Cause"   -> j.row.CAUSE
                  [] c = "Fire_Size_HA" -> j.row.SIZE_HA]
    IN  IF fire_data_filtered = <<>> \/ fire_gdf = <<>>
        THEN [outcome |-> "returned", file |-> NoFile]
        ELSE [outcome |-> "written",
              file |-> [cols |-> FireCols,
                        rows |-> [i \in 1..Len(joined_gdf) |-> Final(joined_gdf[i])]]]

\* --------------------------------------------------------- raster sampling
\* A fetched raster covers its bounding box with RasterSize x RasterSize
\* pixels (north up).  src.index(x, y) gives (row, col) of the pixel at (x, y).
src_index(bbox, x, y) ==
    << ((bbox.maxy - y) * RasterSize) \div (bbox.maxy - bbox.miny),
       ((x - bbox.minx) * RasterSize) \div (bbox.maxx - bbox.minx) >>

\* the north-west corner of pixel [r, c] of a raster over bbox
pixel_x(bbox, c) == bbox.minx + (c * (bbox.maxx - bbox.minx)) \div RasterSize

pixel_y(bbox, r) == bbox.maxy - (r * (bbox.maxy - bbox.miny)) \div RasterSize

\* get_shapefile_bbox: None (here FALSE) when the grid file cannot be read
get_shapefile_bbox(province) == shapefile_exists(province)

\* ------------------------------------------------------------- NDVI stage
ndvi_freq == 5

\* the vegetation index observed at (x, y) on a day; missing under cloud
NdviWorld(x, y, day) == IF day <= 2 /\ y <= 2 THEN NaN ELSE 10 * day + x + y

RECURSIVE date_range(_, _)
date_range(start, end) ==
    IF start > end THEN <<>> ELSE <<start>> \o date_range(start + ndvi_freq, end)

\* fetch_ndvi_data: the GeoTIFF written for a bounding box and a date
fetch_ndvi_data(bbox, day) == [bbox |-> bbox, day |-> day]

\* map_ndvi_to_grid: [failed |-> TRUE] is the None returned on an exception
map_ndvi_to_grid(ndvi_tif, province) ==
    LET grid_gdf == read_grid(province)
        bbox == ndvi_tif.bbox
        day  == ndvi_tif.day
        Idx(cell) == src_index(bbox, geometry_centroid(cell)[1], geometry_centroid(cell)[2])
        col(cell)  == Idx(cell)[1]
        row_(cell) == Idx(cell)[2]
        InArray(i) == -RasterSize <= i /\ i < RasterSize
        Wrap(i) == IF i < 0 THEN i + RasterSize ELSE i
    IN  IF \E i \in 1..Len(grid_gdf) :
              ~ (InArray(row_(grid_gdf[i])) /\ InArray(col(grid_gdf[i])))
        THEN [failed |-> TRUE, rows |-> <<>>]
        ELSE [failed |-> FALSE,
              rows |-> [i \in 1..Len(grid_gdf) |->
                          [grid_id |-> grid_gdf[i].grid_id,
                           ndvi |-> NdviWorld(pixel_x(bbox, Wrap(col(grid_gdf[i]))),
                                              pixel_y(bbox, Wrap(row_(grid_gdf[i]))),
                                              day),
                           date |-> day]]]

\* DataFrame.interpolate(axis=1, method='linear') on one row of the pivot:
\* the columns count as equally spaced; a gap between two known values is
\* filled on the straight line between them, a gap after the last known
\* value repeats it, a gap before the first known value stays missing.
interpolate_row(vals) ==
    [k \in 1..Len(vals) |->
        IF vals[k] # NaN THEN vals[k]
        ELSE LET before == {i \in 1..(k - 1) : vals[i] # NaN}
                 after  == {j \in (k + 1)..Len(vals) : vals[j] # NaN}
             IN  IF before = {} THEN NaN
                 ELSE LET i == SetMax(before)
                      IN  IF after = {} THEN vals[i]
                          ELSE LET j == SetMin(after)
                               IN  vals[i] + ((vals[j] - vals[i]) * (k - i)) \div (j - i)]

NdviCols == <<"grid_id", "date", "ndvi">>

interpolate_ndvi(ndvi_df) ==
    LET ids   == SortedSeq({ndvi_df[i].grid_id : i \in 1..Len(ndvi_df)})
        dates == SortedSeq({ndvi_df[i].date : i \in 1..Len(ndvi_df)})
        Known(id, d) == SelectSeq(ndvi_df, LAMBDA r : r.grid_id = id /\ r.date = d)
        Pivot(id) == [k \in 1..Len(dates) |->
                        IF Known(id, dates[k]) = <<>> THEN NaN
                        ELSE Known(id, dates[k])[1].ndvi]
    IN  [cols |-> NdviCols,
         rows |-> Concat([k \in 1..Len(dates) |->
                            [i \in 1..Len(ids) |->
                                [grid_id |-> ids[i], date |-> dates[k],
                                 ndvi |-> interpolate_row(Pivot(ids[i]))[k]]]])]

\* process_ndvi_data: returns without a file when the grid file is unreadable,
\* no token is obtained or no raster is fetched; else writes interpolated_ndvi.csv
process_ndvi_data(province, start_date, end_date, token, fetched) ==
    IF ~ get_shapefile_bbox(province) \/ ~ token
    THEN [outcome |-> "returned", file |-> NoFile]
    ELSE LET dates == SelectSeq(date_range(start_date, end_date), LAMBDA d : d \in fetched)
             bbox  == total_bounds(read_grid(province))
             maps  == [k \in 1..Len(dates) |->
                          map_ndvi_to_grid(fetch_ndvi_data(bbox, dates[k]), province)]
             ndvi_records == Concat([k \in 1..Len(dates) |->
                                        IF maps[k].failed THEN <<>> ELSE maps[k].rows])
         IN  IF \A k \in 1..Len(dates) : maps[k].failed
             THEN [outcome |-> "returned", file |-> NoFile]
             ELSE [outcome |-> "written", file |-> interpolate_ndvi(ndvi_records)]

\* ------------------------------------------------------- topography stage
\* the terrain height at (x, y)
DemWorld(x, y) == 100 + 3 * x * x + 20 * y

\* a variant whose bottom-right box repeats the top-right one
divide_bbox_top_right_twice(bbox) ==
    LET midx == (bbox.minx + bbox.maxx) \div 2
        midy == (bbox.miny + bbox.maxy) \div 2
    IN  << [minx |-> bbox.minx, miny |-> midy, maxx |-> midx, maxy |-> bbox.maxy],
           [minx |-> midx, miny |-> midy, maxx |-> bbox.maxx, maxy |-> bbox.maxy],
           [minx |-> bbox.minx, miny |-> bbox.miny, maxx |-> midx, maxy |-> midy],
           [minx |-> midx, miny |-> midy, maxx |-> bbox.maxx, maxy |-> bbox.maxy] >>

\* divide_bbox: [minx, miny, maxx, maxy] into top-left, top-right,
\* bottom-left, bottom-right (every bounding box here has even coordinates,
\* so the midpoint (min + max) / 2 is a whole number)
divide_bbox(bbox) ==
    LET midx == (bbox.minx + bbox.maxx) \div 2
        midy == (bbox.miny + bbox.maxy) \div 2
    IN  << [minx |-> bbox.minx, miny |-> midy, maxx |-> midx, maxy |-> bbox.maxy],
           [minx |-> midx, miny |-> midy, maxx |-> bbox.maxx, maxy |-> bbox.maxy],
           [minx |-> bbox.minx, miny |-> bbox.miny, maxx |-> midx, maxy |-> midy],
           [minx |-> midx, miny |-> bbox.miny, maxx |-> bbox.maxx, maxy |-> midy] >>

Pixels == 0..(RasterSize - 1)

\* the DEM raster fetched for a tile: dem[r][c]
dem_array(bbox) ==
    [r \in Pixels |-> [c \in Pixels |-> DemWorld(pixel_x(bbox, c), pixel_y(bbox, r))]]

Clamp(i) == IF i < 0 THEN 0 ELSE IF i > RasterSize - 1 THEN RasterSize - 1 ELSE i

\* gaussian_filter(dem, sigma=1), as the 1-2-1 kernel on each axis, the
\* edge pixel repeated beyond the border
gaussian_filter(dem) ==
    LET Rows == [r \in Pixels |-> [c \in Pixels |->
                    (dem[Clamp(r - 1)][c] + 2 * dem[r][c] + dem[Clamp(r + 1)][c]) \div 4]]
    IN  [r \in Pixels |-> [c \in Pixels |->
            (Rows[r][Clamp(c - 1)] + 2 * Rows[r][c] + Rows[r][Clamp(c + 1)]) \div 4]]

\* np.gradient along one axis with spacing extent / RasterSize: central
\* differences inside, one-sided differences on the border
gradient(prev, here, next, i, extent) ==
    IF RasterSize = 1 THEN 0
    ELSE IF i = 0 THEN ((next - here) * RasterSize) \div extent
    ELSE IF i = RasterSize - 1 THEN ((here - prev) * RasterSize) \div extent
    ELSE ((next - prev) * RasterSize) \div (2 * extent)

Abs(a) == IF a < 0 THEN -a ELSE a

\* arctan(t) in whole degrees for t = num / den >= 0
arctan_deg(num, den) ==
    IF den = 0 THEN (IF num = 0 THEN 0 ELSE 90)
    ELSE IF 8 * num <= den THEN 0
    ELSE IF 8 * num <= 3 * den THEN 14
    ELSE IF 8 * num <= 5 * den THEN 27
    ELSE IF 8 * num <= 7 * den THEN 37
    ELSE IF  num <= den THEN 45
    ELSE IF  num <= 2 * den THEN 56
    ELSE IF  num <= 4 * den THEN 72
    ELSE 85

\* arctan2(a, b) in whole degrees, in (-180, 180]
arctan2_deg(a, b) ==
    IF b > 0 THEN (IF a >= 0 THEN arctan_deg(a, b) ELSE - arctan_deg(-a, b))
    ELSE IF b < 0 THEN (IF a >= 0 THEN 180 - arctan_deg(a, -b) ELSE arctan_deg(-a, -b) - 180)
    ELSE IF a > 0 THEN 90 ELSE IF a < 0 THEN -90 ELSE 0

\* np.clip(v, lo, hi)
clip(v, lo, hi) == IF v < lo THEN lo ELSE IF v > hi THEN hi ELSE v

slope_max == 35

\* a variant that neither clips the slope nor wraps the aspect
slope_aspect_unbounded(dem, bbox, r, c) ==
    LET sm == gaussian_filter(dem)
        x == gradient(sm[Clamp(r - 1)][c], sm[r][c], sm[Clamp(r + 1)][c], r,
                      bbox.maxx - bbox.minx)
        y == gradient(sm[r][Clamp(c - 1)], sm[r][c], sm[r][Clamp(c + 1)], c,
                      bbox.maxy - bbox.miny)
        mag == CHOOSE m \in 0..(Abs(x) + Abs(y)) :
                  m * m <= x * x + y * y /\ (m + 1) * (m + 1) > x * x + y * y
    IN  [slope  |-> arctan_deg(mag, 1),
         aspect |-> arctan2_deg(-x, y)]

\* calculate_slope_aspect at pixel [r][c]: x is the gradient along the rows
\* (taken with the pixel width), y the gradient along the columns (taken
\* with the pixel height)
slope_aspect(dem, bbox, r, c) ==
    LET sm == gaussian_filter(dem)
        x == gradient(sm[Clamp(r - 1)][c], sm[r][c], sm[Clamp(r + 1)][c], r,
                      bbox.maxx - bbox.minx)
        y == gradient(sm[r][Clamp(c - 1)], sm[r][c], sm[r][Clamp(c + 1)], c,
                      bbox.maxy - bbox.miny)
        mag == CHOOSE m \in 0..(Abs(x) + Abs(y)) :
                  m * m <= x * x + y * y /\ (m + 1) * (m + 1) > x * x + y * y
    IN  [slope  |-> clip(arctan_deg(mag, 1), 0, slope_max),
         aspect |-> (arctan2_deg(-x, y) + 360) % 360]

\* calculate_slope_aspect(dem_array, transform, crs): the slope and aspect rasters
calculate_slope_aspect(dem, bbox) ==
    [r \in Pixels |-> [c \in Pixels |-> slope_aspect(dem, bbox, r, c)]]

TopoCols == <<"grid_id", "Latitude", "Longitude", "Elevation", "Slope", "Aspect">>

\* map_dem_to_grid: one row per grid cell, missing values for a cell whose
\* centroid indexes outside the tile's raster
map_dem_to_grid(bbox, province) ==
    LET grid_gdf == read_grid(province)
        dem == dem_array(bbox)
        Row(cell) ==
            LET idx  == src_index(bbox, centroid(cell)[1], centroid(cell)[2])
                col  == idx[1]
                row_ == idx[2]
                inside == 0 <= row_ /\ row_ < RasterSize /\ 0 <= col /\ col < RasterSize
            IN  [c \in Range(TopoCols) |->
                    CASE c = "grid_id"   -> cell.grid_id
                      [] c = "Latitude"  -> centroid(cell)[2]
                      [] c = "Longitude" -> centroid(cell)[1]
                      [] c = "Elevation" -> IF inside THEN dem[row_][col] ELSE NaN
                      [] c = "Slope"     -> IF inside THEN slope_aspect(dem, bbox, row_, col).slope
                                            ELSE NaN
                      [] c = "Aspect"    -> IF inside THEN slope_aspect(dem, bbox, row_, col).aspect
                                            ELSE NaN]
    IN  [i \in 1..Len(grid_gdf) |-> Row(grid_gdf[i])]

\* a variant that keeps, for each cell, the record of the first tile
merge_tiles_first_tile(all_dfs) ==
    LET all == Concat(all_dfs)
        ids == SortedSeq({all[i]["grid_id"] : i \in 1..Len(all)})
        Of(id) == SelectSeq(all, LAMBDA r : r["grid_id"] = id)
    IN  [cols |-> TopoCols,
         rows |-> [i \in 1..Len(ids) |-> Of(ids[i])[1]]]

\* pd.concat(all_dfs).groupby(["grid_id", "Latitude", "Longitude"]).mean()
merge_tiles(all_dfs) ==
    LET all == Concat(all_dfs)
        ids == SortedSeq({all[i]["grid_id"] : i \in 1..Len(all)})
        Of(id) == SelectSeq(all, LAMBDA r : r["grid_id"] = id)
    IN  [cols |-> TopoCols,
         rows |-> [i \in 1..Len(ids) |->
                     [c \in Range(TopoCols) |->
                         IF c \in {"grid_id", "Latitude", "Longitude"} THEN Of(ids[i])[1][c]
                         ELSE agg_mean([k \in 1..Len(Of(ids[i])) |-> Of(ids[i])[k][c]])]]]

\* process_topo_data: returns without a file when the grid file is unreadable
\* or no token is obtained, raises when no tile was fetched (pd.concat of an
\* empty list), else writes processed_topo.csv
process_topo_data(province, token, fetched) ==
    IF ~ get_shapefile_bbox(province) \/ ~ token
    THEN [outcome |-> "returned", file |-> NoFile]
    ELSE LET divided_bboxes == divide_bbox(total_bounds(read_grid(province)))
             dem_files == SelectSeq([i \in 1..4 |-> i], LAMBDA i : i \in fetched)
             all_dfs == [k \in 1..Len(dem_files) |->
                            map_dem_to_grid(divided_bboxes[dem_files[k]], province)]
         IN  IF dem_files = <<>>
             THEN [outcome |-> "raised", file |-> NoFile]
             ELSE [outcome |-> "written", file |-> merge_tiles(all_dfs)]

\* ------------------------------------------------------------------ state
VARIABLES
    request_dir,      \* which request directory the files below are those of:
                      \* "script" (the one the stage scripts' main blocks
                      \* name) or "app" (the one of the latest run_tool call)
    pc,               \* "idle", or the stage run_tool calls next
    province, start_date, end_date,     \* the inputs of the current run
    climate_file,     \* Climate/aggregated_climate_data.csv
    fire_file,        \* FireHistory/fire_history_processed.csv
    ndvi_file,        \* NDVI/interpolated_ndvi.csv
    topo_file,        \* Topography/processed_topo.csv
    final_file,       \* final_merged_dataset.csv
    merge_outcome,    \* how the latest merge_final_dataset call ended
    terminal_output,  \* what run_tool appended since the request directory
                      \* was created
    call              \* the latest direct call of one function of the stage
                      \* modules: its name, its arguments and what it returned

pipeline == << request_dir, pc, province, start_date, end_date, climate_file, fire_file,
               ndvi_file, topo_file, final_file, merge_outcome, terminal_output >>

vars == << pipeline, call >>

NoCall == [op |-> "none"]

files == << climate_file, fire_file, ndvi_file, topo_file, final_file >>

inputs == << province, start_date, end_date >>

Init ==
    /\ request_dir = "script"
    /\ pc = "idle"
    /\ province = "A" /\ start_date = 1 /\ end_date = 1
    /\ climate_file = NoFile /\ fire_file = NoFile /\ ndvi_file = NoFile
    /\ topo_file = NoFile /\ final_file = NoFile
    /\ merge_outcome = "none"
    /\ terminal_output = <<>>
    /\ call = NoCall

\* run_tool up to the try block: the inputs are read and a request
\* directory named after the current minute is created (every call here
\* falls in a minute of its own, so the directory is new)
run_tool ==
    /\ pc = "idle"
    /\ \E p \in Provinces, s \in Days, e \in Days :
          /\ province' = p /\ start_date' = s /\ end_date' = e
    /\ request_dir' = "app"
    /\ climate_file' = NoFile /\ fire_file' = NoFile /\ ndvi_file' = NoFile
    /\ topo_file' = NoFile /\ final_file' = NoFile
    /\ merge_outcome' = "none"
    /\ terminal_output' = <<"request">>
    /\ pc' = "climate"
    /\ UNCHANGED call

\* a variant in which the run goes on with the next stage after the message
Abort_and_continue ==
    /\ terminal_output' = Append(terminal_output, "error")
    /\ pc' = CASE pc = "climate" -> "fire"
                [] pc = "fire"    -> "ndvi"
                [] pc = "ndvi"    -> "topo"
                [] pc = "topo"    -> "merge"
                [] OTHER          -> "idle"

\* except Exception as e: the run ends with the error message
Abort ==
    /\ terminal_output' = Append(terminal_output, "error")
    /\ pc' = "idle"

climate_step ==
    /\ pc = "climate"
    /\ \E last \in 0..MaxDay :
          LET r == process_climate_data(province, start_date, 1..last)
          IN  IF r.raised
              THEN Abort /\ UNCHANGED climate_file
              ELSE /\ climate_file' = r.file
                   /\ terminal_output' = Append(terminal_output, "climate")
                   /\ pc' = "fire"
    /\ UNCHANGED << request_dir, inputs, fire_file, ndvi_file, topo_file, final_file,
                    merge_outcome, call >>

fire_step ==
    /\ pc = "fire"
    /\ LET r == process_fire_history(province, start_date, end_date)
       IN  IF r.outcome = "raised"
           THEN Abort /\ UNCHANGED fire_file
           ELSE /\ fire_file' = IF r.outcome = "written" THEN r.file ELSE fire_file
                /\ terminal_output' = Append(terminal_output, "fire")
                /\ pc' = "ndvi"
    /\ UNCHANGED << request_dir, inputs, climate_file, ndvi_file, topo_file, final_file,
                    merge_outcome, call >>

ndvi_step ==
    /\ pc = "ndvi"
    /\ \E token \in BOOLEAN, fetched \in SUBSET Range(date_range(start_date, end_date)) :
          LET r == process_ndvi_data(province, start_date, end_date, token, fetched)
          IN  /\ ndvi_file' = IF r.outcome = "written" THEN r.file ELSE ndvi_file
              /\ terminal_output' = Append(terminal_output, "ndvi")
              /\ pc' = "topo"
    /\ UNCHANGED << request_dir, inputs, climate_file, fire_file, topo_file, final_file,
                    merge_outcome, call >>

topo_step ==
    /\ pc = "topo"
    /\ \E token \in BOOLEAN, fetched \in SUBSET (1..4) :
          LET r == process_topo_data(province, token, fetched)
          IN  IF r.outcome = "raised"
              THEN Abort /\ UNCHANGED topo_file
              ELSE /\ topo_file' = IF r.outcome = "written" THEN r.file ELSE topo_file
                   /\ terminal_output' = Append(terminal_output, "topo")
                   /\ pc' = "merge"
    /\ UNCHANGED << request_dir, inputs, climate_file, fire_file, ndvi_file, final_file,
                    merge_outcome, call >>

\* the call of merge_final_dataset and the message after it
merge_step ==
    /\ pc = "merge"
    /\ LET r == merge_final_dataset(climate_file, fire_file, ndvi_file, topo_file,
                                    start_date, end_date)
       IN  /\ merge_outcome' = r.outcome
           /\ final_file' = IF r.outcome = "written" THEN r.file ELSE final_file
           /\ IF r.outcome = "raised"
              THEN Abort
              ELSE /\ terminal_output' = Append(terminal_output, "merged")
                   /\ pc' = "idle"
    /\ UNCHANGED << request_dir, inputs, climate_file, fire_file, ndvi_file, topo_file, call >>

\* process_ndvi_data.py run as a script
ndvi_main ==
    /\ pc = "idle" /\ request_dir = "script"
    /\ \E token \in BOOLEAN, fetched \in SUBSET Range(date_range(1, 5)) :
          LET r == process_ndvi_data("A", 1, 5, token, fetched)
          IN  ndvi_file' = IF r.outcome = "written" THEN r.file ELSE ndvi_file
    /\ UNCHANGED << request_dir, pc, inputs, climate_file, fire_file, topo_file, final_file,
                    merge_outcome, terminal_output, call >>

\* process_topo_data.py run as a script
topo_main ==
    /\ pc = "idle" /\ request_dir = "script"
    /\ \E token \in BOOLEAN, fetched \in SUBSET (1..4) :
          LET r == process_topo_data("A", token, fetched)
          IN  /\ r.outcome # "raised"
              /\ topo_file' = IF r.outcome = "written" THEN r.file ELSE topo_file
    /\ UNCHANGED << request_dir, pc, inputs, climate_file, fire_file, ndvi_file, final_file,
                    merge_outcome, terminal_output, call >>

\* merge_final_dataset called for the script request directory
merge_call ==
    /\ pc = "idle" /\ request_dir = "script"
    /\ \E s \in Days, e \in Days :
          LET r == merge_final_dataset(climate_file, fire_file, ndvi_file, topo_file, s, e)
          IN  /\ merge_outcome' = r.outcome
              /\ final_file' = IF r.outcome = "written" THEN r.file ELSE final_file
              /\ start_date' = s /\ end_date' = e
    /\ UNCHANGED << request_dir, pc, province, climate_file, fire_file, ndvi_file, topo_file,
                    terminal_output, call >>

Next ==
    \/ run_tool
    \/ climate_step
    \/ fire_step
    \/ ndvi_step
    \/ topo_step
    \/ merge_step
    \/ ndvi_main
    \/ topo_main
    \/ merge_call

Spec == Init /\ [][Next]_vars

\* ------------------------------------------- two runs within one minute
\* the number of runs that have used the current request directory
RunsInDirectory == Cardinality({k \in 1..Len(terminal_output) : terminal_output[k] = "request"})

\* run_tool called again within the minute of the run before it: request_id
\* is the same, makedirs(exist_ok=True) accepts the existing directory, and
\* the files the earlier run wrote are still in it.  The directory is shared
\* by two runs, the second one starting when the first is over.
run_tool_same_minute ==
    /\ pc = "idle" /\ request_dir = "app"
    /\ RunsInDirectory = 1
    /\ \E p \in Provinces, s \in Days, e \in Days :
          /\ province' = p /\ start_date' = s /\ end_date' = e
    /\ terminal_output' = Append(terminal_output, "request")
    /\ pc' = "climate"
    /\ UNCHANGED << request_dir, files, merge_outcome, call >>

\* the stages of a run whose services answer every request: the reanalysis
\* covers every day, the token is obtained, every raster and tile is fetched
served_climate_step ==
    /\ pc = "climate"
    /\ LET r == process_climate_data(province, start_date, Days)
       IN  IF r.raised
           THEN Abort /\ UNCHANGED climate_file
           ELSE /\ climate_file' = r.file
                /\ terminal_output' = Append(terminal_output, "climate")
                /\ pc' = "fire"
    /\ UNCHANGED << request_dir, inputs, fire_file, ndvi_file, topo_file, final_file,
                    merge_outcome, call >>

served_ndvi_step ==
    /\ pc = "ndvi"
    /\ LET r == process_ndvi_data(province, start_date, end_date, TRUE, Days)
       IN  /\ ndvi_file' = IF r.outcome = "written" THEN r.file ELSE ndvi_file
           /\ terminal_output' = Append(terminal_output, "ndvi")
           /\ pc' = "topo"
    /\ UNCHANGED << request_dir, inputs, climate_file, fire_file, topo_file, final_file,
                    merge_outcome, call >>

served_topo_step ==
    /\ pc = "topo"
    /\ LET r == process_topo_data(province, TRUE, 1..4)
       IN  /\ topo_file' = IF r.outcome = "written" THEN r.file ELSE topo_file
           /\ terminal_output' = Append(terminal_output, "topo")
           /\ pc' = "merge"
    /\ UNCHANGED << request_dir, inputs, climate_file, fire_file, ndvi_file, final_file,
                    merge_outcome, call >>

IsolationNext ==
    \/ run_tool
    \/ run_tool_same_minute
    \/ served_climate_step
    \/ fire_step
    \/ served_ndvi_step
    \/ served_topo_step
    \/ merge_step

IsolationSpec == Init /\ [][IsolationNext]_vars

\* ------------------------------------------------- the functions on their own
\* One stage function called directly, on inputs of its own: the request
\* directory is left alone and `call` records the arguments and the result.
SeqsUpTo(S, n) == UNION {[1..k -> S] : k \in 1..n}

\* one row of the raw climate CSV: a reanalysis point at 12:00 of a day, the
\* five averaged variables at t and the precipitation at tp
Observation(p, day, t, tp) ==
    [latitude |-> p[2], longitude |-> p[1], valid_time |-> day * TicksPerDay + 1,
     vals |-> [v \in Range(ClimateVars) |-> IF v = "Total_Precip_mm" THEN tp ELSE t]]

Observations ==
    {Observation(p, day, m[1], m[2]) :
        p \in {<<1, 2>>, <<3, 2>>, <<6, 2>>}, day \in 1..2,
        m \in {<<NaN, NaN>>, <<NaN, 2>>, <<4, NaN>>, <<4, 2>>, <<8, 6>>}}

call_map_and_aggregate_points_to_grid ==
    /\ call = NoCall
    /\ \E raw \in SeqsUpTo(Observations, MaxObs) :
          call' = [op |-> "map_and_aggregate_points_to_grid", raw |-> raw,
                   grid |-> read_grid("A"),
                   result |-> map_and_aggregate_points_to_grid(raw, read_grid("A"))]
    /\ UNCHANGED pipeline

\* what map_dem_to_grid returns for one tile: a row per grid cell, with the
\* elevation, slope and aspect sampled for the cell or all three missing
TileSamples == {<<NaN, NaN, NaN>>, <<100, 10, 90>>, <<140, 30, 270>>}

TileTable(grid, sample) ==
    [i \in 1..Len(grid) |->
        [c \in Range(TopoCols) |->
            CASE c = "grid_id"   -> grid[i].grid_id
              [] c = "Latitude"  -> centroid(grid[i])[2]
              [] c = "Longitude" -> centroid(grid[i])[1]
              [] c = "Elevation" -> sample[i][1]
              [] c = "Slope"     -> sample[i][2]
              [] c = "Aspect"    -> sample[i][3]]]

TileTables == {TileTable(read_grid("A"), sample) : sample \in [1..2 -> TileSamples]}

\* the last two lines of process_topo_data on the tables of the fetched tiles
call_merge_tiles ==
    /\ call = NoCall
    /\ \E all_dfs \in SeqsUpTo(TileTables, MaxTiles) :
          call' = [op |-> "merge_tiles", all_dfs |-> all_dfs, grid |-> read_grid("A"),
                   result |-> merge_tiles(all_dfs)]
    /\ UNCHANGED pipeline

\* grids of two cells side by side, the second starting inside the first
\* (the cells overlap) or on its edge
JoinGrids == {<<GridCell(1, 0, 4), GridCell(2, minx, 8)>> : minx \in {2, 4}}

JoinPoints == {[longitude |-> x, latitude |-> 2] : x \in {1, 3, 4, 9}}

\* gpd.sjoin(points, grid, how = ..., predicate = "within") as the climate
\* stage (how = "inner") and the fire-history stage (how = "left") call it
call_sjoin ==
    /\ call = NoCall
    /\ \E points \in SeqsUpTo(JoinPoints, MaxObs), grid \in JoinGrids, how \in {"inner", "left"} :
          call' = [op |-> "sjoin", points |-> points, grid |-> grid, how |-> how,
                   result |-> sjoin(points, grid, how)]
    /\ UNCHANGED pipeline

\* the extents of the rasters handed to the two sampling functions: the
\* bounding box of grid "A", its western and eastern halves, a box shifted
\* east, and the four tiles of divide_bbox
RasterBoxes ==
    {[minx |-> 0, miny |-> 0, maxx |-> 8, maxy |-> 4],
     [minx |-> 0, miny |-> 0, maxx |-> 4, maxy |-> 4],
     [minx |-> 4, miny |-> 0, maxx |-> 8, maxy |-> 4],
     [minx |-> 4, miny |-> 0, maxx |-> 12, maxy |-> 4]}
    \cup Range(divide_bbox(total_bounds(read_grid("A"))))

call_map_ndvi_to_grid ==
    /\ call = NoCall
    /\ \E bbox \in RasterBoxes, day \in Days :
          call' = [op |-> "map_ndvi_to_grid", bbox |-> bbox, grid |-> read_grid("A"),
                   result |-> map_ndvi_to_grid(fetch_ndvi_data(bbox, day), "A")]
    /\ UNCHANGED pipeline

call_map_dem_to_grid ==
    /\ call = NoCall
    /\ \E bbox \in RasterBoxes :
          call' = [op |-> "map_dem_to_grid", bbox |-> bbox, grid |-> read_grid("A"),
                   result |-> map_dem_to_grid(bbox, "A")]
    /\ UNCHANGED pipeline

\* elevation rasters: planes of every tilt, flat to steep, with or without
\* a twist
Tilts == {-40, -3, 0, 3, 40}

DemRaster(a, b, twist) ==
    [r \in Pixels |-> [c \in Pixels |-> 500 + a * r + b * c + twist * r * c]]

DemRasters == {DemRaster(a, b, twist) : a \in Tilts, b \in Tilts, twist \in {0, 5}}

call_calculate_slope_aspect ==
    /\ call = NoCall
    /\ \E dem \in DemRasters, bbox \in RasterBoxes :
          call' = [op |-> "calculate_slope_aspect", dem |-> dem, bbox |-> bbox,
                   result |-> calculate_slope_aspect(dem, bbox)]
    /\ UNCHANGED pipeline

\* bounding boxes of every shape on even coordinates
BoxCoords == {2 * k : k \in 0..MaxHalfExtent}

BoundingBoxes ==
    {[minx |-> x1, miny |-> y1, maxx |-> x2, maxy |-> y2] :
        x1 \in BoxCoords, x2 \in BoxCoords, y1 \in BoxCoords, y2 \in BoxCoords}

call_divide_bbox ==
    /\ call = NoCall
    /\ \E bbox \in BoundingBoxes :
          /\ bbox.minx < bbox.maxx /\ bbox.miny < bbox.maxy
          /\ call' = [op |-> "divide_bbox", bbox |-> bbox, result |-> divide_bbox(bbox)]
    /\ UNCHANGED pipeline

\* processed_ndvi.csv: the records of every grid cell of "A" at each date
\* whose raster was fetched, out of the dates ndvi_freq days apart that
\* process_ndvi_data asks for; the value at a date is missing or not
NdviValues == {NaN, 10, 30}

SampleDates == {1 + ndvi_freq * (k - 1) : k \in 1..MaxSamples}

NdviRecords(dates, value) ==
    Concat([k \in 1..Len(dates) |->
              [i \in 1..2 |-> [grid_id |-> i, ndvi |-> value[<<dates[k], i>>],
                                date |-> dates[k]]]])

call_interpolate_ndvi ==
    /\ call = NoCall
    /\ \E fetched \in (SUBSET SampleDates) \ {{}} :
          \E value \in [fetched \X (1..2) -> NdviValues] :
              call' = [op |-> "interpolate_ndvi",
                       ndvi_df |-> NdviRecords(SortedSeq(fetched), value),
                       result |-> interpolate_ndvi(NdviRecords(SortedSeq(fetched), value))]
    /\ UNCHANGED pipeline

\* the grid files the bounding box is derived from: the grids of the
\* provinces, stored in either frame or without a declared frame
Frames == {"EPSG:4326", "EPSG:3857", "none"}

GridFiles == {GridFile(crs, read_grid(prov)) : crs \in Frames, prov \in {"A", "B"}}

call_get_bounding_box_cds ==
    /\ call = NoCall
    /\ \E gdf \in GridFiles :
          call' = [op |-> "get_bounding_box_cds", gdf |-> gdf,
                   result |-> get_bounding_box_cds(gdf)]
    /\ UNCHANGED pipeline

call_get_bounding_box ==
    /\ call = NoCall
    /\ \E gdf \in GridFiles :
          call' = [op |-> "get_bounding_box", gdf |-> gdf, result |-> get_bounding_box(gdf)]
    /\ UNCHANGED pipeline

call_fetch_climate_data ==
    /\ call = NoCall
    /\ \E gdf \in GridFiles :
          call' = [op |-> "fetch_climate_data", gdf |-> gdf,
                   result |-> fetch_climate_data_area(gdf)]
    /\ UNCHANGED pipeline

\* the stages called on their own, for every province (province "N" has no
\* grid file) and every date range; the services answer every request
call_process_climate_data ==
    /\ call = NoCall
    /\ \E prov \in Provinces, start \in Days :
          LET done == process_climate_data(prov, start, Days)
          IN  call' = [op |-> "process_climate_data", province |-> prov, start_date |-> start,
                       outcome |-> IF done.raised THEN "raised" ELSE "written",
                       file |-> done.file]
    /\ UNCHANGED pipeline

call_process_fire_history ==
    /\ call = NoCall
    /\ \E prov \in Provinces, start \in Days, end \in Days :
          /\ start <= end
          /\ LET done == process_fire_history(prov, start, end)
             IN  call' = [op |-> "process_fire_history", province |-> prov,
                          start_date |-> start, end_date |-> end,
                          outcome |-> done.outcome, file |-> done.file]
    /\ UNCHANGED pipeline

call_process_ndvi_data ==
    /\ call = NoCall
    /\ \E prov \in Provinces, start \in Days, end \in Days :
          /\ start <= end
          /\ LET done == process_ndvi_data(prov, start, end, TRUE, Days)
             IN  call' = [op |-> "process_ndvi_data", province |-> prov,
                          start_date |-> start, end_date |-> end,
                          outcome |-> done.outcome, file |-> done.file]
    /\ UNCHANGED pipeline

call_process_topo_data ==
    /\ call = NoCall
    /\ \E prov \in Provinces, fetched \in SUBSET (1..4) :
          LET done == process_topo_data(prov, TRUE, fetched)
          IN  call' = [op |-> "process_topo_data", province |-> prov, fetched |-> fetched,
                       outcome |-> done.outcome, file |-> done.file]
    /\ UNCHANGED pipeline

\* the centroids a stage works with, for the grid of a province
call_stage_centroids ==
    /\ call = NoCall
    /\ \E stage \in Stages, prov \in {"A", "B"} :
          call' = [op |-> "stage_centroids", stage |-> stage, grid |-> read_grid(prov),
                   result |-> stage_centroids(stage, read_grid(prov))]
    /\ UNCHANGED pipeline

FunctionNext ==
    \/ call_interpolate_ndvi
    \/ call_divide_bbox
    \/ call_calculate_slope_aspect
    \/ call_map_and_aggregate_points_to_grid
    \/ call_merge_tiles
    \/ call_sjoin
    \/ call_map_ndvi_to_grid
    \/ call_map_dem_to_grid
    \/ call_get_bounding_box_cds
    \/ call_get_bounding_box
    \/ call_fetch_climate_data
    \/ call_process_climate_data
    \/ call_process_fire_history
    \/ call_process_ndvi_data
    \/ call_process_topo_data
    \/ call_stage_centroids

FunctionSpec == Init /\ [][FunctionNext]_vars

\* ----------------------------------------------------------------- claims
\* the latest merge_final_dataset call found a climate table and went on to
\* the joins
MergeRan == merge_outcome \in {"raised", "written"}

InRange(day) == start_date <= day /\ day <= end_date

\* the (grid_id, Date) pairs of the climate table within the requested range
BackboneKeys ==
    {<<climate_file.rows[i]["GridID"], climate_file.rows[i]["Date"]>> :
        i \in {k \in 1..Len(climate_file.rows) : InRange(climate_file.rows[k]["Date"])}}

FusedKey(r) == <<r["grid_id"], r["Date"]>>

\* the fire records of the fire-history table with this (grid_id, Date)
FireMatches(key) ==
    IF fire_file = NoFile THEN <<>>
    ELSE SelectSeq(fire_file.rows,
                   LAMBDA f : /\ f["grid_id"] = key[1]
                              /\ to_datetime_ts(f["Date"]) = to_datetime(key[2]))

\* C1: whenever merge_final_dataset is run on a climate table, its output
\* holds exactly one row per (grid_id, Date) pair of the climate table in
\* the requested range and no other row, whatever the fire-history, NDVI
\* and topography tables hold.
C1_OneRowPerBackboneKey ==
    MergeRan =>
        /\ final_file # NoFile
        /\ \A key \in BackboneKeys :
              Cardinality({i \in 1..Len(final_file.rows) :
                              FusedKey(final_file.rows[i]) = key}) = 1
        /\ \A i \in 1..Len(final_file.rows) : FusedKey(final_file.rows[i]) \in BackboneKeys

\* C2: whenever merge_final_dataset is run on a climate table, every
\* (grid_id, Date) of the backbone with no matching fire record, the
\* fire-history table being absent or present, has a fused row, and its fused
\* rows have fire size 0, fire-occurred 0 and fire cause "None".
C2_NoFireRowsFilled ==
    MergeRan =>
        \A key \in BackboneKeys :
            FireMatches(key) = <<>> =>
                /\ \E i \in 1..Len(final_file.rows) : FusedKey(final_file.rows[i]) = key
                /\ \A i \in 1..Len(final_file.rows) :
                      FusedKey(final_file.rows[i]) = key =>
                          /\ final_file.rows[i]["Total_Fire_Size"] = 0
                          /\ final_file.rows[i]["Fire_Occurred"] = 0
                          /\ final_file.rows[i]["Fire_Cause"] = "None"

\* C3: in a run where process_fire_history wrote its table, fusion completes
\* and writes the fused file; a fused row matching a fire record has
\* fire_occurred 1 and that record's size and cause, every other row has
\* fire_occurred 0.
C3_FireJoined ==
    (MergeRan /\ request_dir = "app" /\ fire_file # NoFile) =>
        /\ merge_outcome = "written"
        /\ \A i \in 1..Len(final_file.rows) :
              LET m == FireMatches(FusedKey(final_file.rows[i]))
              IN  IF m = <<>> THEN final_file.rows[i]["Fire_Occurred"] = 0
                  ELSE /\ final_file.rows[i]["Fire_Occurred"] = 1
                       /\ \E j \in 1..Len(m) :
                             /\ final_file.rows[i]["Total_Fire_Size"] = m[j]["Fire_Size_HA"]
                             /\ final_file.rows[i]["Fire_Cause"] = m[j]["Fire_Cause"]

\* C4: when merge_final_dataset has been called with no climate file in the
\* request directory, there is no final_merged_dataset.csv, whatever other
\* stage files are there.
C4_NoBackboneNoOutput ==
    (climate_file = NoFile /\ merge_outcome # "none") => final_file = NoFile

C4_Witness ==
    /\ climate_file = NoFile /\ merge_outcome = "no_climate"
    /\ ndvi_file # NoFile /\ topo_file # NoFile
    /\ final_file = NoFile

\* C5: a merge_final_dataset call that finds no climate file ends with an
\* exception reaching its caller.
C5_MissingBackboneRaises ==
    (climate_file = NoFile /\ merge_outcome # "none") => merge_outcome = "raised"

Written == merge_outcome = "written"

\* the records of the interpolated NDVI table with this (grid_id, date)
NdviMatches(key) ==
    IF ndvi_file = NoFile THEN <<>>
    ELSE SelectSeq(ndvi_file.rows,
                   LAMBDA n : n["grid_id"] = key[1] /\ n["date"] = key[2])

\* the records of the topography table with this grid_id
TopoMatches(id) ==
    IF topo_file = NoFile THEN <<>>
    ELSE SelectSeq(topo_file.rows, LAMBDA t : t["grid_id"] = id)

\* C6: every fused row carries the NDVI of the NDVI record with its
\* (grid_id, Date) when there is one, and a missing NDVI (not zero) when
\* there is none or the NDVI table is absent.
C6_NdviJoined ==
    Written =>
        \A i \in 1..Len(final_file.rows) :
            LET m == NdviMatches(FusedKey(final_file.rows[i]))
            IN  IF m = <<>> THEN final_file.rows[i]["ndvi"] = NaN
                ELSE final_file.rows[i]["ndvi"] = m[1]["ndvi"]

C6_Witness ==
    /\ Written /\ ndvi_file # NoFile
    /\ \E i \in 1..Len(final_file.rows) :
          /\ NdviMatches(FusedKey(final_file.rows[i])) # <<>>
          /\ final_file.rows[i]["ndvi"] # NaN
    /\ \E i \in 1..Len(final_file.rows) :
          /\ NdviMatches(FusedKey(final_file.rows[i])) = <<>>
          /\ final_file.rows[i]["ndvi"] = NaN

\* C7: topography is joined by grid_id alone: every fused row of a cell, on
\* every date, carries the elevation, slope and aspect of the cell's
\* topography record, and missing values when the cell has no record or the
\* topography table is absent.
C7_TopoBroadcast ==
    Written =>
        /\ \A i \in 1..Len(final_file.rows) :
              LET t == TopoMatches(final_file.rows[i]["grid_id"])
              IN  \A c \in TopoFilled :
                     final_file.rows[i][c] = IF t = <<>> THEN NaN ELSE t[1][c]
        /\ \A i, j \in 1..Len(final_file.rows) :
              final_file.rows[i]["grid_id"] = final_file.rows[j]["grid_id"] =>
                  \A c \in TopoFilled : final_file.rows[i][c] = final_file.rows[j][c]

C7_Witness ==
    /\ Written /\ topo_file # NoFile
    /\ \E i, j \in 1..Len(final_file.rows) :
          /\ final_file.rows[i]["grid_id"] = final_file.rows[j]["grid_id"]
          /\ final_file.rows[i]["Date"] # final_file.rows[j]["Date"]
          /\ final_file.rows[i]["Elevation"] # NaN
          /\ final_file.rows[j]["Slope"] # NaN

\* C8: after fusion every output row has start_date <= Date <= end_date,
\* both bounds included, and every backbone row with its Date in that range
\* is in the output.
C8_DateRangeInclusive ==
    Written =>
        /\ \A i \in 1..Len(final_file.rows) : InRange(final_file.rows[i]["Date"])
        /\ \A key \in BackboneKeys :
              \E i \in 1..Len(final_file.rows) : FusedKey(final_file.rows[i]) = key

C8_Witness ==
    /\ Written /\ start_date < end_date
    /\ \E i \in 1..Len(final_file.rows) : final_file.rows[i]["Date"] = start_date
    /\ \E i \in 1..Len(final_file.rows) : final_file.rows[i]["Date"] = end_date
    /\ \E k \in 1..Len(climate_file.rows) : ~ InRange(climate_file.rows[k]["Date"])

\* the place of a column in the order grid id, coordinates, date, climate
\* variables, fire variables, NDVI, topography variables (0: not in the list)
ColumnRank(c) ==
    CASE c = "grid_id" -> 1
      [] c = "Latitude" -> 2
      [] c = "Longitude" -> 3
      [] c = "Date" -> 4
      [] c \in Range(ClimateVars) -> 5
      [] c = "Total_Fire_Size" -> 6
      [] c = "Fire_Occurred" -> 7
      [] c = "Fire_Cause" -> 8
      [] c = "ndvi" -> 9
      [] c = "Elevation" -> 10
      [] c = "Slope" -> 11
      [] c = "Aspect" -> 12
      [] OTHER -> 0

\* C9: the columns of the fused file always come in the order grid id,
\* latitude, longitude, date, climate variables, fire variables, NDVI,
\* topography variables, whichever source tables were present and whatever
\* the column order of the inputs; no other column is written.
C9_FixedColumnOrder ==
    final_file # NoFile =>
        /\ \A i \in 1..Len(final_file.cols) : ColumnRank(final_file.cols[i]) > 0
        /\ \A i, j \in 1..Len(final_file.cols) :
              i < j => /\ ColumnRank(final_file.cols[i]) <= ColumnRank(final_file.cols[j])
                       /\ final_file.cols[i] # final_file.cols[j]

C9_Witness ==
    /\ Written /\ ndvi_file # NoFile /\ topo_file # NoFile
    /\ climate_file.cols[1] = "GridID" /\ climate_file.cols[2] = "Date"
    /\ final_file.cols[2] = "Latitude" /\ final_file.cols[4] = "Date"
    /\ Len(final_file.rows) > 0

\* C10 as stated: a column absent from all input tables is left out of the
\* fused file: with no NDVI table there is no ndvi column, with no
\* topography table no Elevation, Slope or Aspect column.
C10_AbsentColumnsOmitted ==
    Written =>
        /\ ndvi_file = NoFile => "ndvi" \notin Range(final_file.cols)
        /\ topo_file = NoFile => TopoFilled \cap Range(final_file.cols) = {}

\* C10 as amended: the fused file always has the ndvi, Elevation, Slope and
\* Aspect columns; with no NDVI table every ndvi value is missing, with no
\* topography table every Elevation, Slope and Aspect value is missing.
C10_PlaceholderColumnsEmitted ==
    Written =>
        /\ {"ndvi"} \cup TopoFilled \subseteq Range(final_file.cols)
        /\ ndvi_file = NoFile =>
              \A i \in 1..Len(final_file.rows) : final_file.rows[i]["ndvi"] = NaN
        /\ topo_file = NoFile =>
              \A i \in 1..Len(final_file.rows) :
                  \A c \in TopoFilled : final_file.rows[i][c] = NaN

C10_Witness ==
    /\ Written /\ ndvi_file = NoFile /\ topo_file = NoFile
    /\ Len(final_file.rows) > 0
    /\ "ndvi" \in Range(final_file.cols)
    /\ final_file.rows[1]["Elevation"] = NaN

\* ------------------------------------------------ claims on the aggregation
Aggregated == call.op = "map_and_aggregate_points_to_grid"

CellById(grid, id) == CHOOSE c \in Range(grid) : c.grid_id = id

\* the valid values of a variable among the raw observations of one key:
\* those whose point lies in the cell and whose time falls on the day
GroupValues(raw, grid, id, day, var) ==
    LET group == SelectSeq(raw, LAMBDA o :
                     /\ within(<<o.longitude, o.latitude>>, CellById(grid, id))
                     /\ dt_date(o.valid_time) = day
                     /\ o.vals[var] # NaN)
    IN  [k \in 1..Len(group) |-> group[k].vals[var]]

IsMeanOf(out, vals) == out * Len(vals) <= SeqSum(vals) /\ SeqSum(vals) < (out + 1) * Len(vals)

\* C11: every aggregated climate record holds, for each variable with a
\* valid observation under its (grid_id, date), the mean of those
\* observations for the wind components, dewpoint, temperature and
\* pressure, and their sum for the precipitation.
C11_FixedReducers ==
    Aggregated =>
        \A i \in 1..Len(call.result.rows) : \A var \in Range(ClimateVars) :
            LET r == call.result.rows[i]
                vals == GroupValues(call.raw, call.grid, r["GridID"], r["Date"], var)
            IN  vals # <<>> =>
                    IF var = "Total_Precip_mm" THEN r[var] = SeqSum(vals)
                    ELSE IsMeanOf(r[var], vals)

\* -------------------------------------------- claims on the stage outputs
SameKey(r1, r2, keys) == \A c \in keys : r1[c] = r2[c]

OneRecordPerKey(file, keys) ==
    \A i, j \in 1..Len(file.rows) : SameKey(file.rows[i], file.rows[j], keys) => i = j

\* C12: each stage file of the request directory holds at most one record
\* per key: (GridID, Date) in the climate file, (grid_id, Date) in the fire
\* history file, (grid_id, date) in the NDVI file and grid_id in the
\* topography file.
C12_OneRecordPerKey ==
    /\ OneRecordPerKey(climate_file, {"GridID", "Date"})
    /\ OneRecordPerKey(fire_file, {"grid_id", "Date"})
    /\ OneRecordPerKey(ndvi_file, {"grid_id", "date"})
    /\ OneRecordPerKey(topo_file, {"grid_id"})

\* --------------------------------------------- claims on missing values
TilesMerged == call.op = "merge_tiles"

\* the valid values the tiles supply for a column of one grid cell
CandidateValues(all_dfs, id, col) ==
    LET all  == Concat(all_dfs)
        rows == SelectSeq(all, LAMBDA r : r["grid_id"] = id /\ r[col] # NaN)
    IN  [k \in 1..Len(rows) |-> rows[k][col]]

\* the value a reduction must give: missing when no input is valid, else
\* the mean (the reducer the code applies) of the valid inputs alone
ReducedOverValid(out, vals) ==
    IF vals = <<>> THEN out = NaN ELSE out # NaN /\ IsMeanOf(out, vals)

\* C13: in the climate aggregation and in the topography tile merge, the
\* value of every variable under every key is the reduction of the valid
\* inputs of the key alone, and it is missing (not zero) when the key has
\* no valid input for the variable.
C13_MissingInputsIgnored ==
    /\ Aggregated =>
          \A i \in 1..Len(call.result.rows) : \A var \in Range(ClimateVars) :
              LET r == call.result.rows[i]
              IN  ReducedOverValid(r[var], GroupValues(call.raw, call.grid,
                                                       r["GridID"], r["Date"], var))
    /\ TilesMerged =>
          \A i \in 1..Len(call.result.rows) : \A col \in TopoFilled :
              LET r == call.result.rows[i]
              IN  ReducedOverValid(r[col], CandidateValues(call.all_dfs, r["grid_id"], col))

\* a climate key with a variable whose inputs are all missing and another
\* with one missing and one valid input
C13_Witness ==
    /\ Aggregated
    /\ Len(call.raw) = 2
    /\ Len(call.result.rows) = 1
    /\ call.raw[1].vals["Temperature_2m_C"] = NaN
    /\ call.raw[2].vals["Temperature_2m_C"] = NaN
    /\ call.raw[1].vals["Total_Precip_mm"] = NaN
    /\ call.raw[2].vals["Total_Precip_mm"] = 2
    /\ call.result.rows[1]["Temperature_2m_C"] = NaN
    /\ call.result.rows[1]["Total_Precip_mm"] = 2

\* --------------------------------------------- claims on the spatial join
\* the record names a cell of the run's grid
NamesCell(id) == \E c \in Range(read_grid(province)) : c.grid_id = id

\* the incidents of fire_history.txt a fire-history record can stem from
IncidentsOf(r) ==
    {k \in 1..Len(fire_history) :
        /\ fire_history[k].REP_DATE # NaT
        /\ format_ts(fire_history[k].REP_DATE) = r["Date"]
        /\ fire_history[k].CAUSE = r["Fire_Cause"]
        /\ fire_history[k].SIZE_HA = r["Fire_Size_HA"]}

\* C14: every record of the climate file and of the fire-history file names
\* a grid cell that contains the point the record stems from; no record has
\* an empty grid_id, which is what a point in no cell would leave.
C14_JoinedPointInCell ==
    /\ \A i \in 1..Len(climate_file.rows) :
          LET r == climate_file.rows[i]
          IN  /\ NamesCell(r["GridID"])
              /\ \E p \in Era5Points : within(p, CellById(read_grid(province), r["GridID"]))
    /\ \A i \in 1..Len(fire_file.rows) :
          LET r == fire_file.rows[i]
          IN  /\ NamesCell(r["grid_id"])
              /\ \E k \in IncidentsOf(r) :
                    within(<<fire_history[k].longitude, fire_history[k].latitude>>,
                           CellById(read_grid(province), r["grid_id"]))

Joined == call.op = "sjoin"

\* how many rows of a sequence satisfy a test
Occurrences(rows, p) == Cardinality({k \in 1..Len(rows) : rows[k] = p})

JoinedRowsOf(p) == SelectSeq(call.result, LAMBDA j : j.row = p)

\* the point lies on an edge that two cells of the grid share
OnSharedBoundary(p, grid) ==
    \E c1, c2 \in Range(grid) :
        /\ c1.maxx = c2.minx /\ p.longitude = c1.maxx
        /\ c1.miny < p.latitude /\ p.latitude < c1.maxy

\* C15: the spatial join yields at most one joined record per input point,
\* whatever the grid, and exactly one, with one of the two cells, for a
\* point on an edge shared by two cells.
C15_AtMostOneCellPerPoint ==
    Joined =>
        \A p \in Range(call.points) :
            /\ Len(JoinedRowsOf(p)) <= Occurrences(call.points, p)
            /\ OnSharedBoundary(p, call.grid) =>
                  /\ Len(JoinedRowsOf(p)) = Occurrences(call.points, p)
                  /\ \A k \in 1..Len(JoinedRowsOf(p)) : JoinedRowsOf(p)[k].grid_id # NaN

\* ------------------------------------------- claims on the raster sampling
\* the cell's centroid falls on no pixel of a raster over bbox
OutsideRaster(bbox, cell) ==
    LET idx == src_index(bbox, centroid(cell)[1], centroid(cell)[2])
    IN  ~ (idx[1] \in Pixels /\ idx[2] \in Pixels)

\* C16: map_ndvi_to_grid and map_dem_to_grid return a record for every grid
\* cell, and the record of a cell whose centroid indexes outside the raster
\* holds a missing value (missing elevation, slope and aspect for a DEM).
C16_OutsideRasterIsMissing ==
    /\ call.op = "map_ndvi_to_grid" =>
          /\ ~ call.result.failed
          /\ \A cell \in Range(call.grid) :
                \E k \in 1..Len(call.result.rows) :
                    /\ call.result.rows[k].grid_id = cell.grid_id
                    /\ OutsideRaster(call.bbox, cell) => call.result.rows[k].ndvi = NaN
    /\ call.op = "map_dem_to_grid" =>
          \A cell \in Range(call.grid) :
              \E k \in 1..Len(call.result) :
                  /\ call.result[k]["grid_id"] = cell.grid_id
                  /\ OutsideRaster(call.bbox, cell) =>
                        \A c \in TopoFilled : call.result[k][c] = NaN

\* --------------------------------------------- claims on slope and aspect
SlopeAspectComputed == call.op = "calculate_slope_aspect"

Divided == call.op = "divide_bbox"

Inside(b, outer) ==
    /\ outer.minx <= b.minx /\ b.minx <= b.maxx /\ b.maxx <= outer.maxx
    /\ outer.miny <= b.miny /\ b.miny <= b.maxy /\ b.maxy <= outer.maxy

Area(b) == (b.maxx - b.minx) * (b.maxy - b.miny)

\* two boxes share at most an edge or a corner
InteriorsDisjoint(a, b) ==
    \/ a.maxx <= b.minx \/ b.maxx <= a.minx
    \/ a.maxy <= b.miny \/ b.maxy <= a.miny

\* one side of the box is an edge of the outer box, the other its midpoint
HalfOf(lo, hi, outerlo, outerhi) ==
    \/ lo = outerlo /\ 2 * hi = outerlo + outerhi
    \/ 2 * lo = outerlo + outerhi /\ hi = outerhi

\* C18: divide_bbox returns four boxes, each spanning one half of the
\* bounding box on each axis up to or from the midpoint; each lies inside
\* the bounding box, no two share more than an edge or a corner, and their
\* areas add up to the area of the bounding box (so together they cover it).
C18_QuadrantSplit ==
    Divided =>
        /\ Len(call.result) = 4
        /\ \A i \in 1..4 :
              /\ Inside(call.result[i], call.bbox)
              /\ HalfOf(call.result[i].minx, call.result[i].maxx, call.bbox.minx, call.bbox.maxx)
              /\ HalfOf(call.result[i].miny, call.result[i].maxy, call.bbox.miny, call.bbox.maxy)
        /\ \A i, j \in 1..4 : i # j => InteriorsDisjoint(call.result[i], call.result[j])
        /\ SeqSum([i \in 1..4 |-> Area(call.result[i])]) = Area(call.bbox)

\* a bounding box that is not a square and whose midpoints fall between
\* two of the even coordinates
C18_Witness ==
    /\ Divided
    /\ call.bbox.maxx - call.bbox.minx # call.bbox.maxy - call.bbox.miny
    /\ call.result[1].maxx % 2 = 1
    /\ call.result[1].miny % 2 = 1

\* ------------------------------------------------ claims on the tile merge
RecordsOfCell(table, id) == {k \in 1..Len(table.rows) : table.rows[k]["grid_id"] = id}

\* C19: the merged topography table holds exactly one record for every
\* cell of the grid and none for anything else, and where more than one
\* tile supplies a value for a cell, the cell's elevation, slope and aspect
\* are each the mean of the supplied values.
C19_OneAveragedRecordPerCell ==
    TilesMerged =>
        /\ \A cell \in Range(call.grid) :
              Cardinality(RecordsOfCell(call.result, cell.grid_id)) = 1
        /\ \A k \in 1..Len(call.result.rows) :
              \E cell \in Range(call.grid) : cell.grid_id = call.result.rows[k]["grid_id"]
        /\ \A k \in 1..Len(call.result.rows) : \A col \in TopoFilled :
              LET r == call.result.rows[k]
                  vals == CandidateValues(call.all_dfs, r["grid_id"], col)
              IN  Len(vals) >= 2 => IsMeanOf(r[col], vals)

\* two tiles supply different elevations for cell 1, and its record holds
\* the value half way between them
C19_Witness ==
    /\ TilesMerged
    /\ Len(call.all_dfs) = 2
    /\ call.all_dfs[1][1]["Elevation"] = 100
    /\ call.all_dfs[2][1]["Elevation"] = 140
    /\ call.result.rows[1]["grid_id"] = 1
    /\ call.result.rows[1]["Elevation"] = 120

\* ---------------------------------------------- claims on the interpolation
Interpolated == call.op = "interpolate_ndvi"

\* the dates at which the input holds a value for the cell
KnownDates(ndvi_df, id) ==
    {ndvi_df[k].date : k \in {j \in 1..Len(ndvi_df) :
                                  ndvi_df[j].grid_id = id /\ ndvi_df[j].ndvi # NaN}}

\* C20: every (cell, date) to which interpolate_ndvi gives a value lies
\* within the cell's own span of known samples: the cell has a known
\* sample on or before the date and one on or after it.
C20_NoExtrapolation ==
    Interpolated =>
        \A k \in 1..Len(call.result.rows) :
            LET r == call.result.rows[k]
                known == KnownDates(call.ndvi_df, r["grid_id"])
            IN  r["ndvi"] # NaN =>
                    /\ \E d \in known : d <= r["date"]
                    /\ \E d \in known : d >= r["date"]

RecordsAt(table, id, d) ==
    {k \in 1..Len(table.rows) : table.rows[k]["grid_id"] = id /\ table.rows[k]["date"] = d}

\* C21: for every grid cell and every calendar day from the cell's first
\* known sample to its last, the table interpolate_ndvi returns holds
\* exactly one record.
C21_DailyRecords ==
    Interpolated =>
        \A id \in {call.ndvi_df[k].grid_id : k \in 1..Len(call.ndvi_df)} :
            LET known == KnownDates(call.ndvi_df, id)
            IN  known # {} =>
                    \A d \in SetMin(known)..SetMax(known) :
                        Cardinality(RecordsAt(call.result, id, d)) = 1

\* ------------------------------------------- claims on the bounding box
BoundingBoxDerived ==
    call.op \in {"get_bounding_box_cds", "get_bounding_box", "fetch_climate_data"}

\* the cells of a grid file in the geographic frame
Normalised(gdf) ==
    IF gdf.crs = "EPSG:3857" THEN [i \in 1..Len(gdf.cells) |-> to_4326(gdf.cells[i])]
    ELSE gdf.cells

\* C22: every bounding box derived from a grid file is (north, west, south,
\* east) of the grid in the geographic frame, with north >= south and
\* west <= east, whatever frame the file is stored in.
C22_BoundingBoxNormalised ==
    BoundingBoxDerived /\ ~ call.result.raised =>
        LET area   == call.result.area
            bounds == total_bounds(Normalised(call.gdf))
        IN  /\ area[1] >= area[3]
            /\ area[2] <= area[4]
            /\ area = <<bounds.maxy, bounds.minx, bounds.miny, bounds.maxx>>

\* --------------------------------------------- claims on loading the grid
StageCalled ==
    call.op \in {"process_climate_data", "process_fire_history",
                 "process_ndvi_data", "process_topo_data"}

\* C23: a stage called for a province whose grid file does not exist raises;
\* it neither returns normally nor writes a file.
C23_MissingGridRaises ==
    StageCalled /\ ~ shapefile_exists(call.province) =>
        /\ call.outcome = "raised"
        /\ call.file = NoFile

\* ------------------------------------------ claims on the order of stages
StageOrder == <<"climate", "fire", "ndvi", "topo", "merge">>

\* the messages run_tool appends when stage k has returned
StageMessages == <<"climate", "fire", "ndvi", "topo", "merged">>

\* the file stage k writes
StageFile(k) ==
    CASE k = 1 -> climate_file
      [] k = 2 -> fire_file
      [] k = 3 -> ndvi_file
      [] k = 4 -> topo_file
      [] OTHER -> final_file

\* the messages of the current run after the request line
RunLog == Tail(terminal_output)

Raised == RunLog # <<>> /\ RunLog[Len(RunLog)] = "error"

\* the number of stages that have returned
Returned == IF Raised THEN Len(RunLog) - 1 ELSE Len(RunLog)

\* C24: within a run the stages return in the order climate, fire, NDVI,
\* topography, fusion, the next one to run being the one after the last that
\* returned; once a stage has raised the run is over, and neither that stage
\* nor any later one, fusion included, has written its file.
C24_StagesInOrder ==
    request_dir = "app" =>
        /\ Returned <= 5
        /\ SubSeq(RunLog, 1, Returned) = SubSeq(StageMessages, 1, Returned)
        /\ IF Raised
           THEN /\ Returned < 5
                /\ pc = "idle"
                /\ \A k \in (Returned + 1)..5 : StageFile(k) = NoFile
           ELSE pc = IF Returned = 5 THEN "idle" ELSE StageOrder[Returned + 1]

\* the topography stage raised after the three stages before it returned
C24_Witness ==
    /\ request_dir = "app"
    /\ RunLog = <<"climate", "fire", "ndvi", "error">>
    /\ climate_file # NoFile
    /\ final_file = NoFile

\* -------------------------------------- claims on sources without data
\* a run of run_tool is over and its climate stage had returned
RunOver == request_dir = "app" /\ pc = "idle" /\ Returned >= 1

\* C25: a run whose fire stage found no fire record (and wrote no file) does
\* not abort, whatever the NDVI and topography stages fetched: the fused
\* table is written, with the fire columns filled in.
C25_NoDataDoesNotAbort ==
    RunOver /\ fire_file = NoFile =>
        /\ ~ Raised
        /\ final_file # NoFile
        /\ FireFilled \subseteq Range(final_file.cols)

\* ------------------------------------------- claims on isolation of runs
\* C26: the fire-history file fusion reads is the one the fire stage of the
\* same run wrote, and there is none when that stage wrote none: no file of
\* another run is read.
C26_FusionReadsOwnFireFile ==
    pc = "merge" => fire_file = process_fire_history(province, start_date, end_date).file

\* ------------------------------------------------ claims on the centroids
\* the centre of the cell taken in the projected frame, brought back to the
\* geographic frame
ReprojectedCentre(cell) ==
    LET projected == to_3857(cell)
        x == (projected.minx + projected.maxx) \div 2
        y == (projected.miny + projected.maxy) \div 2
    IN  <<x \div ProjScale, unstretch(y)>>

\* C27: the centroids a stage works with hold exactly one entry per grid_id,
\* and it is the centre of the cell computed in the projected frame and
\* reprojected, in every stage (climate, fire history, NDVI, topography).
C27_ProjectedCentroids ==
    call.op = "stage_centroids" =>
        \A cell \in Range(call.grid) :
            LET entries == {k \in 1..Len(call.result) : call.result[k].grid_id = cell.grid_id}
            IN  /\ Cardinality(entries) = 1
                /\ \A k \in entries : call.result[k].centroid = ReprojectedCentre(cell)

\* ------------------------------------------- claims on the sampled pixel
\* <<row, column>> of the pixel the raster's transform gives for a point
PixelOf(bbox, point) == src_index(bbox, point[1], point[2])

InsideRaster(idx) == idx[1] \in Pixels /\ idx[2] \in Pixels

\* C28: for each cell whose centroid (the one the function samples at) lies
\* inside the raster, the elevation map_dem_to_grid returns and the ndvi
\* map_ndvi_to_grid returns are the raster's values at that pixel: row
\* PixelOf[1] of the array, column PixelOf[2].
C28_SampledPixel ==
    /\ call.op = "map_dem_to_grid" =>
          \A k \in 1..Len(call.result) :
              LET idx == PixelOf(call.bbox, centroid(call.grid[k]))
              IN  InsideRaster(idx) =>
                      call.result[k]["Elevation"] = dem_array(call.bbox)[idx[1]][idx[2]]
    /\ call.op = "map_ndvi_to_grid" /\ ~ call.result.failed =>
          \A k \in 1..Len(call.result.rows) :
              LET idx == PixelOf(call.bbox, geometry_centroid(call.grid[k]))
              IN  InsideRaster(idx) =>
                      call.result.rows[k].ndvi
                        = NdviWorld(pixel_x(call.bbox, idx[2]), pixel_y(call.bbox, idx[1]),
                                    call.result.rows[k].date)

\* the value the input holds for the cell at one of its known dates
KnownValue(ndvi_df, id, d) ==
    LET j == CHOOSE i \in 1..Len(ndvi_df) : ndvi_df[i].grid_id = id /\ ndvi_df[i].date = d
    IN  ndvi_df[j].ndvi

\* C29: a record of interpolate_ndvi at a date d without a known sample,
\* between the cell's nearest known samples (t1, v1) before and (t2, v2)
\* after it, holds v1 + (v2 - v1) * (d - t1) / (t2 - t1): the weight is the
\* elapsed calendar time, also when the sample dates are unevenly spaced.
C29_TimeWeighted ==
    Interpolated =>
        \A k \in 1..Len(call.result.rows) :
            LET r      == call.result.rows[k]
                d      == r["date"]
                known  == KnownDates(call.ndvi_df, r["grid_id"])
                before == {t \in known : t < d}
                after  == {t \in known : t > d}
            IN  d \notin known /\ before # {} /\ after # {} =>
                    LET t1 == SetMax(before)
                        t2 == SetMin(after)
                        v1 == KnownValue(call.ndvi_df, r["grid_id"], t1)
                        v2 == KnownValue(call.ndvi_df, r["grid_id"], t2)
                    IN  r["ndvi"] = v1 + ((v2 - v1) * (d - t1)) \div (t2 - t1)

====
